---- MODULE Spec2Model ----
(***************************************************************************)
(* Model of web/sugar_level_monitor.py: the process-wide SensorDataStore   *)
(* (shared sensor values, two bounded history buffers, the active buffer   *)
(* and the per-buffer last-update timestamps) and the request handlers     *)
(* that read and mutate it.                                                *)
(*                                                                         *)
(* Numbers.  Python floats are modelled in fixed point: every glucose and  *)
(* sensor quantity is an integer number of thousandths (Unit = 1000), so   *)
(* 36.5 is 36500 and a glucose rounded to one decimal is a multiple of     *)
(* 100.  Wall-clock time is an integer number of ticks since midnight,     *)
(* TicksPerSecond ticks to the second.                                     *)
(***************************************************************************)
EXTENDS Integers, Sequences, FiniteSets, TLC

VARIABLES
    sensor_values,   \* sensor_store.sensor_values (one dict, shared by both sources)
    data_buffers,    \* sensor_store.data_buffers: buffer name -> deque(maxlen=30)
    active_buffer,   \* sensor_store.active_buffer
    last_updates,    \* sensor_store.last_updates: buffer name -> None or a time
    now,             \* the wall clock read by datetime.now()
    response,        \* what the last handler returned (and the locals it computed)
    appended,        \* history variable: per buffer, the points appended since its last clear
    threads          \* per worker thread: its position in get_current_data and its locals

vars == <<sensor_values, data_buffers, active_buffer, last_updates, now,
          response, appended, threads>>

store == <<sensor_values, data_buffers, active_buffer, last_updates>>

-----------------------------------------------------------------------------
(* Scales and program constants *)

Unit == 1000
TicksPerSecond == 2
SecondsPerHour == 3600
SecondsPerDay == 86400
None == -1

BufferNames == {"manual", "esp32"}
Workers == {1, 2}     \* the threads of the server that handle requests
MaxLen == 30

ClipLo == 20
ClipHi == 200
DefaultYMin == 50
DefaultYMax == 150
MinPadding == 5
MinRange == 20
GenerateEvery == 1

Fields == {"red_signal", "ir_signal", "temperature", "motion"}

-----------------------------------------------------------------------------
(* Bounds of the model *)

MaxPoints == 2        \* Spec: points appended and not yet cleared
MaxTicks == 2         \* Spec: ticks of wall-clock time in one run
MaxFifoPoints == 32   \* SpecFifo: points appended and not yet cleared
MaxStalePoints == 2   \* SpecStale: points appended and not yet cleared
MaxStaleSeconds == 10 \* SpecStale: seconds of wall-clock time in one run
MaxErrPoints == 2     \* SpecErr: points appended and not yet cleared
MaxErrTicks == 1      \* SpecErr: ticks of wall-clock time in one run
MaxConcPoints == 2    \* SpecConc: points appended in one run
MaxConcTicks == 2     \* SpecConc: ticks of wall-clock time in one run
MaxRangeLen == 3      \* SpecRange: longest history the range is computed for
NoiseMax == 6000      \* largest |noise| drawn (thousandths): 4 sigma of Normal(0, 1.5)

StartHours == {6}     \* a run starts on this hour of the day
NoiseSet == {NoiseMax}

TicksPerHour == SecondsPerHour * TicksPerSecond
Elapsed == now % TicksPerHour      \* runs start on the hour and last under an hour
TotalAppended == Len(appended["manual"]) + Len(appended["esp32"])

-----------------------------------------------------------------------------
(* Python helpers *)

Max2(a, b) == IF a >= b THEN a ELSE b
Min2(a, b) == IF a <= b THEN a ELSE b

\* min() / max() of a non-empty list of numbers
MinOf(S) == CHOOSE x \in S : \A y \in S : x <= y
MaxOf(S) == CHOOSE x \in S : \A y \in S : x >= y

\* round(x, 1): to the nearest tenth, ties to the even tenth
Round1(x) ==
    LET q == x \div (Unit \div 10)
        r == x % (Unit \div 10)
        half == Unit \div 20
    IN  IF r < half THEN q * (Unit \div 10)
        ELSE IF r > half THEN (q + 1) * (Unit \div 10)
        ELSE IF q % 2 = 0 THEN q * (Unit \div 10)
        ELSE (q + 1) * (Unit \div 10)

\* np.clip(x, lo, hi)
Clip(x, lo, hi) == Max2(lo, Min2(hi, x))

\* (variant: a plain list, which never evicts)
DequeAppendUnbounded(d, p) == Append(d, p)

\* (variant: the new point takes the place of the newest one)
DequeReplaceLast(d, p) ==
    IF Len(d) > 0 THEN SubSeq(d, 1, Len(d) - 1) \o <<p>> ELSE <<p>>

\* deque(maxlen=30).append(p): append on the right, drop from the left when full
DequeAppend(d, p) ==
    IF Len(d) >= MaxLen THEN Tail(d) \o <<p>> ELSE Append(d, p)

\* 5 * sin(hour * pi / 12) in thousandths, hour = 0..23
Sin5Table ==
    <<0, 1294, 2500, 3536, 4330, 4830, 5000, 4830, 4330, 3536, 2500, 1294,
      0, -1294, -2500, -3536, -4330, -4830, -5000, -4830, -4330, -3536, -2500, -1294>>

\* datetime.now() as seconds of the day (hour*3600 + minute*60 + second)
SecondsOfDay(t) == (t \div TicksPerSecond) % SecondsPerDay

\* 5 * np.sin(seconds_of_day / 3600 * np.pi / 12), sampled on the hour
Circadian(t) == Sin5Table[(SecondsOfDay(t) \div SecondsPerHour) + 1]

-----------------------------------------------------------------------------
(* Glucose calculation *)

\* (variant: the smoothed value returned without np.clip)
calculate_glucose_unclipped(red, ir, temp, motion, prev, t, noise) ==
    LET glucose == (2 * Unit - (red + ir)) * 90 + (temp - 36500) * 3
                   + (0 - motion) * 40 + Circadian(t) + noise
    IN  IF prev # <<>> THEN (8 * prev[1] + 2 * glucose) \div 10 ELSE glucose

\* calculate_glucose(red, ir, temp, motion, prev_glucose): prev is <<>> for None
\* and <<g>> for a value; t is the clock and noise the np.random.normal draw.
calculate_glucose(red, ir, temp, motion, prev, t, noise) ==
    LET optical_effect == (2 * Unit - (red + ir)) * 90
        temp_effect == (temp - 36500) * 3
        motion_effect == (0 - motion) * 40
        circadian_effect == Circadian(t)
        glucose == optical_effect + temp_effect + motion_effect
                   + circadian_effect + noise
        smoothed == IF prev # <<>>
                    THEN (8 * prev[1] + 2 * glucose) \div 10
                    ELSE glucose
    IN  Clip(smoothed, ClipLo * Unit, ClipHi * Unit)

\* (variant: an empty buffer borrows the newest point of the other one)
get_previous_glucose_any(buffer_name) ==
    LET buffer == data_buffers[buffer_name]
        others == {b \in BufferNames \ {buffer_name} : Len(data_buffers[b]) > 0}
    IN  IF Len(buffer) > 0 THEN <<buffer[Len(buffer)].Glucose>>
        ELSE IF others # {}
             THEN LET o == CHOOSE b \in others : TRUE
                  IN  <<data_buffers[o][Len(data_buffers[o])].Glucose>>
             ELSE <<>>

\* get_previous_glucose(buffer_name)
get_previous_glucose(buffer_name) ==
    LET buffer == data_buffers[buffer_name]
    IN  IF Len(buffer) > 0 THEN <<buffer[Len(buffer)].Glucose>> ELSE <<>>

\* generate_glucose_point(buffer_name), evaluated on the sensor values sv
generate_glucose_point(buffer_name, sv, t, noise) ==
    LET prev_glucose == get_previous_glucose(buffer_name)
        glucose == calculate_glucose(sv.red_signal, sv.ir_signal, sv.temperature,
                                     sv.motion, prev_glucose, t, noise)
    IN  [Time |-> SecondsOfDay(t),
         Glucose |-> Round1(glucose),
         Red |-> sv.red_signal,
         IR |-> sv.ir_signal,
         Temperature |-> sv.temperature,
         Motion |-> sv.motion]

-----------------------------------------------------------------------------
(* Initial state: SensorDataStore.__init__ *)

InitSensorValues ==
    [red_signal |-> 600, ir_signal |-> 700, temperature |-> 36500, motion |-> 300,
     last_update |-> None, device_connected |-> FALSE, data_source |-> "manual"]

InitStore ==
    /\ sensor_values = InitSensorValues
    /\ data_buffers = [b \in BufferNames |-> <<>>]
    /\ active_buffer = "manual"
    /\ last_updates = [b \in BufferNames |-> None]

\* a thread between two requests
Idle == [pc |-> "idle", current_time |-> None, buffer_name |-> "",
         should_generate |-> FALSE, new_point |-> <<>>]

Init ==
    /\ InitStore
    /\ threads = [w \in Workers |-> Idle]
    /\ now \in {h * TicksPerHour : h \in StartHours}
    /\ response = [op |-> "none"]
    /\ appended = [b \in BufferNames |-> <<>>]

-----------------------------------------------------------------------------
(* Requests: the JSON body of an ingestion is, per field, absent, a number  *)
(* or something float() rejects                                            *)

Absent == [k |-> "absent", v |-> 0]
Num(x) == [k |-> "num", v |-> x]
Str == [k |-> "str", v |-> 0]

\* float(data.get(f, sensor_values[f])) raises for some field
FloatRaises(data) == \E f \in Fields : data[f].k = "str"

\* (variant: a missing field falls back to its initial value)
GetFloatDefault(data, f, sv) ==
    IF data[f].k = "absent" THEN InitSensorValues[f] ELSE data[f].v

\* float(data.get(f, sv[f]))
GetFloat(data, f, sv) == IF data[f].k = "absent" THEN sv[f] ELSE data[f].v

-----------------------------------------------------------------------------
(* GET /api/get-current-data *)

\* (variant: the clip bounds as the default range)
default_range_clip == [y_min |-> ClipLo * Unit, y_max |-> ClipHi * Unit]

\* y_min, y_max = 50, 150: the range when there is no data
default_range == [y_min |-> DefaultYMin * Unit, y_max |-> DefaultYMax * Unit]

\* (variant: the padding applied inwards)
padded_range_inward(buffer_data) ==
    LET glucose_values == {buffer_data[i].Glucose : i \in 1..Len(buffer_data)}
        min_glucose == MinOf(glucose_values)
        max_glucose == MaxOf(glucose_values)
        padding == Max2(MinPadding * Unit, (max_glucose - min_glucose) \div 10)
    IN  [y_min |-> Max2(ClipLo * Unit, min_glucose + padding),
         y_max |-> Min2(ClipHi * Unit, max_glucose - padding)]

\* the padded and clamped range of a non-empty buffer_data
padded_range(buffer_data) ==
    LET glucose_values == {buffer_data[i].Glucose : i \in 1..Len(buffer_data)}
        min_glucose == MinOf(glucose_values)
        max_glucose == MaxOf(glucose_values)
        padding == Max2(MinPadding * Unit, (max_glucose - min_glucose) \div 10)
    IN  [y_min |-> Max2(ClipLo * Unit, min_glucose - padding),
         y_max |-> Min2(ClipHi * Unit, max_glucose + padding)]

\* (variant: the minimum range used as the half-width)
ensure_min_range_wide(r) ==
    IF r.y_max - r.y_min < MinRange * Unit
    THEN LET center == (r.y_max + r.y_min) \div 2
         IN  [y_min |-> center - MinRange * Unit, y_max |-> center + MinRange * Unit]
    ELSE r

\* (variant: no minimum range)
ensure_min_range_never(r) == r

\* "Ensure minimum range of 20 units": recentre a range narrower than 20
ensure_min_range(r) ==
    IF r.y_max - r.y_min < MinRange * Unit
    THEN LET center == (r.y_max + r.y_min) \div 2
         IN  [y_min |-> center - 10 * Unit, y_max |-> center + 10 * Unit]
    ELSE r

\* the Y-axis range computed from buffer_data: the locals y_min, y_max before rounding
y_range_of(buffer_data) ==
    IF Len(buffer_data) = 0
    THEN default_range
    ELSE ensure_min_range(padded_range(buffer_data))

\* (variant: time_diff > 1.0)
should_generate_strict(buffer_name, current_time) ==
    \/ last_updates[buffer_name] = None
    \/ current_time - last_updates[buffer_name] > GenerateEvery * TicksPerSecond

\* should_generate: no point yet for this buffer, or the last one is >= 1 s old
should_generate(buffer_name, current_time) ==
    \/ last_updates[buffer_name] = None
    \/ current_time - last_updates[buffer_name] >= GenerateEvery * TicksPerSecond

\* the JSON body get_current_data returns for the buffer contents buffer_data
current_data_response(buffer_name, buffer_data, last_update, current_time) ==
    LET r == y_range_of(buffer_data)
    IN  [op |-> "get_current_data", code |-> 200,
         data_source |-> buffer_name,
         sensor_values |-> sensor_values,
         glucose_data |-> buffer_data,
         data_count |-> Len(buffer_data),
         y_min |-> r.y_min, y_max |-> r.y_max,
         y_range |-> [min |-> Round1(r.y_min), max |-> Round1(r.y_max)],
         last_update |-> last_update,
         timestamp |-> current_time]

get_current_data(noise) ==
    LET current_time == now
        buffer_name == active_buffer
    IN  /\ IF should_generate(buffer_name, current_time)
           THEN LET new_point == generate_glucose_point(buffer_name, sensor_values,
                                                        now, noise)
                IN  /\ data_buffers' = [data_buffers EXCEPT ![buffer_name] =
                                            DequeAppend(@, new_point)]
                    /\ last_updates' = [last_updates EXCEPT ![buffer_name] = current_time]
                    /\ appended' = [appended EXCEPT ![buffer_name] = Append(@, new_point)]
           ELSE UNCHANGED <<data_buffers, last_updates, appended>>
        /\ response' = current_data_response(buffer_name, data_buffers'[buffer_name],
                                             last_updates'[buffer_name], current_time)
        /\ UNCHANGED <<sensor_values, active_buffer, now, threads>>

\* lines 146-180 of get_current_data on their own: list the active buffer, compute
\* the range, build the response
current_data_tail ==
    /\ response' = current_data_response(active_buffer, data_buffers[active_buffer],
                                         last_updates[active_buffer], now)
    /\ UNCHANGED <<store, now, appended, threads>>

-----------------------------------------------------------------------------
(* POST /api/set-data-source *)

\* (variant: a switch that also restarts the new source's throttle timer)
set_data_source_restarting(arg) ==
    LET new_source == IF arg = <<>> THEN "manual" ELSE arg[1]
    IN  IF new_source \notin {"manual", "esp32"}
        THEN /\ response' = [op |-> "set_data_source", code |-> 400,
                             message |-> "Invalid data source"]
             /\ UNCHANGED <<store, now, appended, threads>>
        ELSE /\ active_buffer' = new_source
             /\ sensor_values' = [sensor_values EXCEPT !.data_source = new_source]
             /\ last_updates' = [last_updates EXCEPT ![new_source] = None]
             /\ response' = [op |-> "set_data_source", code |-> 200,
                             data_source |-> new_source,
                             buffer_sizes |-> [b \in BufferNames |-> Len(data_buffers[b])]]
             /\ UNCHANGED <<data_buffers, now, appended, threads>>

\* (variant: an unknown source falls back to 'manual' before the error is returned)
set_data_source_fallback(arg) ==
    LET new_source == IF arg = <<>> THEN "manual" ELSE arg[1]
    IN  IF new_source \notin {"manual", "esp32"}
        THEN /\ active_buffer' = "manual"
             /\ sensor_values' = [sensor_values EXCEPT !.data_source = "manual"]
             /\ response' = [op |-> "set_data_source", code |-> 400,
                             message |-> "Invalid data source"]
             /\ UNCHANGED <<data_buffers, last_updates, now, appended, threads>>
        ELSE /\ active_buffer' = new_source
             /\ sensor_values' = [sensor_values EXCEPT !.data_source = new_source]
             /\ response' = [op |-> "set_data_source", code |-> 200,
                             data_source |-> new_source,
                             buffer_sizes |-> [b \in BufferNames |-> Len(data_buffers[b])]]
             /\ UNCHANGED <<data_buffers, last_updates, now, appended, threads>>

\* arg is <<>> when the body has no 'data_source' key, else <<value>>
set_data_source(arg) ==
    LET new_source == IF arg = <<>> THEN "manual" ELSE arg[1]
    IN  IF new_source \notin {"manual", "esp32"}
        THEN /\ response' = [op |-> "set_data_source", code |-> 400,
                             message |-> "Invalid data source"]
             /\ UNCHANGED <<store, now, appended, threads>>
        ELSE /\ active_buffer' = new_source
             /\ sensor_values' = [sensor_values EXCEPT !.data_source = new_source]
             /\ response' = [op |-> "set_data_source", code |-> 200,
                             data_source |-> new_source,
                             buffer_sizes |-> [b \in BufferNames |-> Len(data_buffers[b])]]
             /\ UNCHANGED <<data_buffers, last_updates, now, appended, threads>>

-----------------------------------------------------------------------------
(* POST /api/sensor-data (ESP32) and POST /api/update-sensors (manual) *)

\* (variant: the fields are stored one by one, up to the one float() rejects)
receive_sensor_data_fieldwise(data, noise) ==
    LET current_time == now
    IN  IF FloatRaises(data)
        THEN /\ response' = [op |-> "receive_sensor_data", code |-> 400]
             /\ sensor_values' = [sensor_values EXCEPT !.red_signal =
                                      IF data.red_signal.k = "num"
                                      THEN data.red_signal.v ELSE @]
             /\ UNCHANGED <<data_buffers, active_buffer, last_updates, now, appended, threads>>
        ELSE
          LET sv == [sensor_values EXCEPT
                        !.red_signal = GetFloat(data, "red_signal", sensor_values),
                        !.ir_signal = GetFloat(data, "ir_signal", sensor_values),
                        !.temperature = GetFloat(data, "temperature", sensor_values),
                        !.motion = GetFloat(data, "motion", sensor_values),
                        !.last_update = current_time,
                        !.device_connected = TRUE]
          IN  /\ sensor_values' = sv
              /\ IF active_buffer = "esp32"
                 THEN LET new_point == generate_glucose_point("esp32", sv, now, noise)
                      IN  /\ data_buffers' = [data_buffers EXCEPT !["esp32"] =
                                                  DequeAppend(@, new_point)]
                          /\ last_updates' = [last_updates EXCEPT !["esp32"] = current_time]
                          /\ appended' = [appended EXCEPT !["esp32"] = Append(@, new_point)]
                       ELSE UNCHANGED <<data_buffers, last_updates, appended>>
              /\ response' = [op |-> "receive_sensor_data", code |-> 200,
                              data_added |-> (active_buffer = "esp32"),
                              esp32_buffer_size |-> Len(data_buffers'["esp32"])]
              /\ UNCHANGED <<active_buffer, now, threads>>

\* (variant: a device point is appended whichever source is active)
receive_sensor_data_always(data, noise) ==
    LET current_time == now
    IN  IF FloatRaises(data)
        THEN /\ response' = [op |-> "receive_sensor_data", code |-> 400]
             /\ UNCHANGED <<store, now, appended, threads>>
        ELSE
          LET sv == [sensor_values EXCEPT
                        !.red_signal = GetFloat(data, "red_signal", sensor_values),
                        !.ir_signal = GetFloat(data, "ir_signal", sensor_values),
                        !.temperature = GetFloat(data, "temperature", sensor_values),
                        !.motion = GetFloat(data, "motion", sensor_values),
                        !.last_update = current_time,
                        !.device_connected = TRUE]
          IN  /\ sensor_values' = sv
              /\ IF TRUE
                 THEN LET new_point == generate_glucose_point("esp32", sv, now, noise)
                      IN  /\ data_buffers' = [data_buffers EXCEPT !["esp32"] =
                                                  DequeAppend(@, new_point)]
                          /\ last_updates' = [last_updates EXCEPT !["esp32"] = current_time]
                          /\ appended' = [appended EXCEPT !["esp32"] = Append(@, new_point)]
                       ELSE UNCHANGED <<data_buffers, last_updates, appended>>
              /\ response' = [op |-> "receive_sensor_data", code |-> 200,
                              data_added |-> TRUE,
                              esp32_buffer_size |-> Len(data_buffers'["esp32"])]
              /\ UNCHANGED <<active_buffer, now, threads>>

\* (variant: manual ingestion honours the 1 s throttle of the poll)
update_sensors_throttled(data, noise) ==
    LET current_time == now
    IN  IF FloatRaises(data)
        THEN /\ response' = [op |-> "update_sensors", code |-> 400]
             /\ UNCHANGED <<store, now, appended, threads>>
        ELSE
          LET sv == [sensor_values EXCEPT
                        !.red_signal = GetFloat(data, "red_signal", sensor_values),
                        !.ir_signal = GetFloat(data, "ir_signal", sensor_values),
                        !.temperature = GetFloat(data, "temperature", sensor_values),
                        !.motion = GetFloat(data, "motion", sensor_values),
                        !.device_connected = FALSE]
          IN  /\ sensor_values' = sv
              /\ IF active_buffer = "manual" /\ should_generate("manual", current_time)
                 THEN LET new_point == generate_glucose_point("manual", sv, now, noise)
                      IN  /\ data_buffers' = [data_buffers EXCEPT !["manual"] =
                                                  DequeAppend(@, new_point)]
                          /\ last_updates' = [last_updates EXCEPT !["manual"] = current_time]
                          /\ appended' = [appended EXCEPT !["manual"] = Append(@, new_point)]
                       ELSE UNCHANGED <<data_buffers, last_updates, appended>>
              /\ response' = [op |-> "update_sensors", code |-> 200,
                              data_added |-> (Len(data_buffers'["manual"]) # Len(data_buffers["manual"])),
                              manual_buffer_size |-> Len(data_buffers'["manual"])]
              /\ UNCHANGED <<active_buffer, now, threads>>

receive_sensor_data(data, noise) ==
    LET current_time == now
    IN  IF FloatRaises(data)
        THEN /\ response' = [op |-> "receive_sensor_data", code |-> 400]
             /\ UNCHANGED <<store, now, appended, threads>>
        ELSE
          LET sv == [sensor_values EXCEPT
                        !.red_signal = GetFloat(data, "red_signal", sensor_values),
                        !.ir_signal = GetFloat(data, "ir_signal", sensor_values),
                        !.temperature = GetFloat(data, "temperature", sensor_values),
                        !.motion = GetFloat(data, "motion", sensor_values),
                        !.last_update = current_time,
                        !.device_connected = TRUE]
          IN  /\ sensor_values' = sv
              /\ IF active_buffer = "esp32"
                 THEN LET new_point == generate_glucose_point("esp32", sv, now, noise)
                      IN  /\ data_buffers' = [data_buffers EXCEPT !["esp32"] =
                                                  DequeAppend(@, new_point)]
                          /\ last_updates' = [last_updates EXCEPT !["esp32"] = current_time]
                          /\ appended' = [appended EXCEPT !["esp32"] = Append(@, new_point)]
                       ELSE UNCHANGED <<data_buffers, last_updates, appended>>
              /\ response' = [op |-> "receive_sensor_data", code |-> 200,
                              data_added |-> (active_buffer = "esp32"),
                              esp32_buffer_size |-> Len(data_buffers'["esp32"])]
              /\ UNCHANGED <<active_buffer, now, threads>>

update_sensors(data, noise) ==
    LET current_time == now
    IN  IF FloatRaises(data)
        THEN /\ response' = [op |-> "update_sensors", code |-> 400]
             /\ UNCHANGED <<store, now, appended, threads>>
        ELSE
          LET sv == [sensor_values EXCEPT
                        !.red_signal = GetFloat(data, "red_signal", sensor_values),
                        !.ir_signal = GetFloat(data, "ir_signal", sensor_values),
                        !.temperature = GetFloat(data, "temperature", sensor_values),
                        !.motion = GetFloat(data, "motion", sensor_values),
                        !.device_connected = FALSE]
          IN  /\ sensor_values' = sv
              /\ IF active_buffer = "manual"
                 THEN LET new_point == generate_glucose_point("manual", sv, now, noise)
                      IN  /\ data_buffers' = [data_buffers EXCEPT !["manual"] =
                                                  DequeAppend(@, new_point)]
                          /\ last_updates' = [last_updates EXCEPT !["manual"] = current_time]
                          /\ appended' = [appended EXCEPT !["manual"] = Append(@, new_point)]
                       ELSE UNCHANGED <<data_buffers, last_updates, appended>>
              /\ response' = [op |-> "update_sensors", code |-> 200,
                              data_added |-> (active_buffer = "manual"),
                              manual_buffer_size |-> Len(data_buffers'["manual"])]
              /\ UNCHANGED <<active_buffer, now, threads>>

-----------------------------------------------------------------------------
(* POST /api/clear-buffer *)

\* (variant: a clear that forgets the buffer's timestamp)
clear_buffer_keeps_timestamp(arg) ==
    LET buffer_name == IF arg = <<>> THEN active_buffer ELSE arg[1]
    IN  IF buffer_name \in DOMAIN data_buffers
        THEN /\ data_buffers' = [data_buffers EXCEPT ![buffer_name] = <<>>]
             /\ appended' = [appended EXCEPT ![buffer_name] = <<>>]
             /\ response' = [op |-> "clear_buffer", code |-> 200,
                             buffer_name |-> buffer_name]
             /\ UNCHANGED <<sensor_values, active_buffer, last_updates, now, threads>>
        ELSE /\ response' = [op |-> "clear_buffer", code |-> 400,
                             message |-> "Invalid buffer name"]
             /\ UNCHANGED <<store, now, appended, threads>>

\* arg is <<>> when the body has no 'buffer_name' key, else <<value>>
clear_buffer(arg) ==
    LET buffer_name == IF arg = <<>> THEN active_buffer ELSE arg[1]
    IN  IF buffer_name \in DOMAIN data_buffers
        THEN /\ data_buffers' = [data_buffers EXCEPT ![buffer_name] = <<>>]
             /\ last_updates' = [last_updates EXCEPT ![buffer_name] = None]
             /\ appended' = [appended EXCEPT ![buffer_name] = <<>>]
             /\ response' = [op |-> "clear_buffer", code |-> 200,
                             buffer_name |-> buffer_name]
             /\ UNCHANGED <<sensor_values, active_buffer, now, threads>>
        ELSE /\ response' = [op |-> "clear_buffer", code |-> 400,
                             message |-> "Invalid buffer name"]
             /\ UNCHANGED <<store, now, appended, threads>>

-----------------------------------------------------------------------------
(* The wall clock *)

Tick(d) ==
    /\ now' = now + d
    /\ UNCHANGED <<store, response, appended, threads>>

-----------------------------------------------------------------------------
(* Inputs *)

Body(red, ir, temp, motion) ==
    [red_signal |-> red, ir_signal |-> ir, temperature |-> temp, motion |-> motion]

ReqFull == Body(Num(500), Num(600), Num(37000), Num(100))
ReqWarm == Body(Absent, Absent, Num(38000), Absent)

Requests == {ReqFull, ReqWarm}
SourceArgs == {<<>>, <<"esp32">>}
ClearArgs == {<<>>, <<"manual">>, <<"esp32">>}
TickSteps == {1, TicksPerSecond}

-----------------------------------------------------------------------------
(* Spec: handlers run one at a time, in any order, on well-formed requests, *)
(* within one throttle window and a little beyond                           *)

\* the bounds of a run: k points appended and not yet cleared, t ticks of time
Within(k, t) == TotalAppended' <= k /\ Elapsed' <= t

Next ==
    \/ \E noise \in NoiseSet : get_current_data(noise) /\ Within(MaxPoints, MaxTicks)
    \/ \E arg \in SourceArgs : set_data_source(arg)
    \/ \E data \in Requests, noise \in NoiseSet :
          receive_sensor_data(data, noise) /\ Within(MaxPoints, MaxTicks)
    \/ \E data \in Requests, noise \in NoiseSet :
          update_sensors(data, noise) /\ Within(MaxPoints, MaxTicks)
    \/ \E arg \in ClearArgs : clear_buffer(arg)
    \/ \E d \in TickSteps : Tick(d) /\ Within(MaxPoints, MaxTicks)

Spec == Init /\ [][Next]_vars

-----------------------------------------------------------------------------
(* SpecFifo: long runs that fill a buffer past its capacity, all within one  *)
(* tick of the clock (ingestions for the active source are not throttled)   *)

NextFifo ==
    \/ \E noise \in NoiseSet : get_current_data(noise) /\ Within(MaxFifoPoints, 0)
    \/ \E arg \in SourceArgs : set_data_source(arg)
    \/ \E noise \in NoiseSet :
          receive_sensor_data(ReqFull, noise) /\ Within(MaxFifoPoints, 0)
    \/ \E noise \in NoiseSet :
          update_sensors(ReqFull, noise) /\ Within(MaxFifoPoints, 0)
    \/ \E arg \in ClearArgs : clear_buffer(arg)

SpecFifo == Init /\ [][NextFifo]_vars

-----------------------------------------------------------------------------
(* SpecErr: as Spec, with the malformed requests as well: an unknown source, *)
(* an unknown buffer name, a field float() rejects                          *)

ReqBad == Body(Num(900), Str, Absent, Absent)

ErrRequests == Requests \cup {ReqBad}
ErrSourceArgs == SourceArgs \cup {<<"bluetooth">>}
ErrClearArgs == ClearArgs \cup {<<"bluetooth">>}

NextErr ==
    \/ \E noise \in NoiseSet : get_current_data(noise) /\ Within(MaxErrPoints, MaxErrTicks)
    \/ \E arg \in ErrSourceArgs : set_data_source(arg)
    \/ \E data \in ErrRequests, noise \in NoiseSet :
          receive_sensor_data(data, noise) /\ Within(MaxErrPoints, MaxErrTicks)
    \/ \E data \in ErrRequests, noise \in NoiseSet :
          update_sensors(data, noise) /\ Within(MaxErrPoints, MaxErrTicks)
    \/ \E arg \in ErrClearArgs : clear_buffer(arg)
    \/ Tick(1) /\ Within(MaxErrPoints, MaxErrTicks)

SpecErr == Init /\ [][NextErr]_vars

-----------------------------------------------------------------------------
(* SpecConc: get_current_data served by two threads at once.  Nothing in the *)
(* program holds a lock, so the threads interleave between statements; the  *)
(* statements that touch only locals are taken with the next one that       *)
(* touches the store.                                                       *)

\* lines 129-130: current_time = datetime.now(); buffer_name = active_buffer
get_current_data_129(w) ==
    /\ threads[w].pc = "idle"
    /\ threads' = [threads EXCEPT ![w] = [Idle EXCEPT !.pc = "134",
                                                     !.current_time = now,
                                                     !.buffer_name = active_buffer]]
    /\ UNCHANGED <<store, now, response, appended>>

\* lines 133-141: should_generate from last_updates[buffer_name], and the branch
get_current_data_134(w) ==
    /\ threads[w].pc = "134"
    /\ LET sg == should_generate(threads[w].buffer_name, threads[w].current_time)
       IN  threads' = [threads EXCEPT ![w].should_generate = sg,
                                      ![w].pc = IF sg THEN "142" ELSE "147"]
    /\ UNCHANGED <<store, now, response, appended>>

\* line 142: new_point = generate_glucose_point(buffer_name)
get_current_data_142(w, noise) ==
    /\ threads[w].pc = "142"
    /\ threads' = [threads EXCEPT
                      ![w].new_point = <<generate_glucose_point(threads[w].buffer_name,
                                                                sensor_values, now, noise)>>,
                      ![w].pc = "143"]
    /\ UNCHANGED <<store, now, response, appended>>

\* line 143: data_buffers[buffer_name].append(new_point)
get_current_data_143(w) ==
    /\ threads[w].pc = "143"
    /\ data_buffers' = [data_buffers EXCEPT ![threads[w].buffer_name] =
                            DequeAppend(@, threads[w].new_point[1])]
    /\ appended' = [appended EXCEPT ![threads[w].buffer_name] =
                        Append(@, threads[w].new_point[1])]
    /\ threads' = [threads EXCEPT ![w].pc = "144"]
    /\ UNCHANGED <<sensor_values, active_buffer, last_updates, now, response>>

\* line 144: last_updates[buffer_name] = current_time
get_current_data_144(w) ==
    /\ threads[w].pc = "144"
    /\ last_updates' = [last_updates EXCEPT ![threads[w].buffer_name] =
                            threads[w].current_time]
    /\ threads' = [threads EXCEPT ![w].pc = "147"]
    /\ UNCHANGED <<sensor_values, data_buffers, active_buffer, now, response, appended>>

\* lines 147-180: list the buffer, compute the range, return the response
get_current_data_147(w) ==
    /\ threads[w].pc = "147"
    /\ response' = current_data_response(threads[w].buffer_name,
                                         data_buffers[threads[w].buffer_name],
                                         last_updates[threads[w].buffer_name],
                                         threads[w].current_time)
    /\ threads' = [threads EXCEPT ![w] = Idle]
    /\ UNCHANGED <<store, now, appended>>

NextConc ==
    \/ \E w \in Workers : get_current_data_129(w)
    \/ \E w \in Workers : get_current_data_134(w)
    \/ \E w \in Workers, noise \in NoiseSet : get_current_data_142(w, noise)
    \/ \E w \in Workers : get_current_data_143(w) /\ Within(MaxConcPoints, MaxConcTicks)
    \/ \E w \in Workers : get_current_data_144(w)
    \/ \E w \in Workers : get_current_data_147(w)
    \/ Tick(1) /\ Within(MaxConcPoints, MaxConcTicks)

SpecConc == Init /\ [][NextConc]_vars

-----------------------------------------------------------------------------
(* SpecStale: a device feed that goes silent; the clock runs past the 10 s  *)
(* after which the feed counts as stale                                     *)

StaleStep == 5 * TicksPerSecond

NextStale ==
    \/ \E noise \in NoiseSet :
          get_current_data(noise) /\ Within(MaxStalePoints, MaxStaleSeconds * TicksPerSecond)
    \/ \E arg \in SourceArgs : set_data_source(arg)
    \/ \E noise \in NoiseSet :
          receive_sensor_data(ReqFull, noise)
          /\ Within(MaxStalePoints, MaxStaleSeconds * TicksPerSecond)
    \/ Tick(StaleStep) /\ Within(MaxStalePoints, MaxStaleSeconds * TicksPerSecond)

SpecStale == Init /\ [][NextStale]_vars

-----------------------------------------------------------------------------
(* SpecCalc: calculate_glucose on a wide grid of inputs.  The store starts  *)
(* with any of the sensor values an ingestion can leave, any hour of the    *)
(* grid, and an active buffer that is empty or holds one earlier point, so  *)
(* that prev_glucose is absent or present; a GET then generates a point.    *)

CalcSignals == {0, 500, 1000, 1500}
CalcTemps == {30000, 36500, 45000}
CalcMotions == {0, 300, 2000}
CalcPrev == {20 * Unit, 51300, 200 * Unit}
CalcHours == {0, 6, 18}
CalcNoise == {0 - NoiseMax, 0, NoiseMax}

PointOf(time, glucose, sv) ==
    [Time |-> time, Glucose |-> glucose, Red |-> sv.red_signal, IR |-> sv.ir_signal,
     Temperature |-> sv.temperature, Motion |-> sv.motion]

InitCalc ==
    /\ \E red \in CalcSignals, ir \in CalcSignals, temp \in CalcTemps, motion \in CalcMotions :
          sensor_values = [InitSensorValues EXCEPT !.red_signal = red, !.ir_signal = ir,
                                                   !.temperature = temp, !.motion = motion]
    /\ now \in {h * TicksPerHour + TicksPerSecond : h \in CalcHours}
    /\ threads = [w \in Workers |-> Idle]
    /\ active_buffer = "manual"
    /\ \/ /\ data_buffers = [b \in BufferNames |-> <<>>]
          /\ last_updates = [b \in BufferNames |-> None]
       \/ \E g \in CalcPrev :
          /\ data_buffers = [b \in BufferNames |->
                                IF b = "manual"
                                THEN <<PointOf(SecondsOfDay(now) - 1, g, InitSensorValues)>>
                                ELSE <<>>]
          /\ last_updates = [b \in BufferNames |->
                                IF b = "manual" THEN now - TicksPerSecond ELSE None]
    /\ appended = data_buffers
    /\ response = [op |-> "none"]

NextCalc == \E noise \in CalcNoise : get_current_data(noise)

SpecCalc == InitCalc /\ [][NextCalc]_vars

-----------------------------------------------------------------------------
(* SpecRange: the Y-axis range as a function of the history.  The active    *)
(* buffer starts as any history of the grid and the range computation of    *)
(* get_current_data is applied to it.                                       *)

GlucoseGrid == {ClipLo * Unit + k * (Unit \div 10) : k \in 0..((ClipHi - ClipLo) * 10)}
RangeGlucose == {20 * Unit, 22300, 25 * Unit, 100 * Unit, 119900, 195 * Unit,
                 197700, 200 * Unit}

ConstantHistories ==
    {[i \in 1..n |-> PointOf(0, g, InitSensorValues)] :
        n \in 1..MaxRangeLen, g \in GlucoseGrid}
MixedHistories ==
    UNION {[1..n -> {PointOf(0, g, InitSensorValues) : g \in RangeGlucose}] :
              n \in 0..MaxRangeLen}

InitRange ==
    /\ sensor_values = InitSensorValues
    /\ active_buffer = "manual"
    /\ \E h \in ConstantHistories \cup MixedHistories :
          /\ data_buffers = [b \in BufferNames |-> IF b = "manual" THEN h ELSE <<>>]
          /\ last_updates = [b \in BufferNames |->
                                IF b = "manual" /\ h # <<>> THEN 0 ELSE None]
    /\ appended = data_buffers
    /\ threads = [w \in Workers |-> Idle]
    /\ now = 0
    /\ response = [op |-> "none"]

NextRange == current_data_tail

SpecRange == InitRange /\ [][NextRange]_vars

-----------------------------------------------------------------------------
(* Properties *)

\* the four sensor reading fields of a sensor_values dict, and of a point
Reading(sv) == [f \in Fields |-> sv[f]]
DefaultReading == Reading(InitSensorValues)
Snapshot(p) ==
    [red_signal |-> p.Red, ir_signal |-> p.IR, temperature |-> p.Temperature,
     motion |-> p.Motion]

\* the last n elements of s
LastN(s, n) == IF Len(s) <= n THEN s ELSE SubSeq(s, Len(s) - n + 1, Len(s))

\* a step taken by the named handler (every handler leaves its name in response;
\* only the clock leaves response alone, and it changes now)
GetStep == response'.op = "get_current_data" /\ now' = now
SetSourceStep == response'.op = "set_data_source" /\ response'.code = 200 /\ now' = now
ClearStep == response'.op = "clear_buffer" /\ response'.code = 200 /\ now' = now

\* C1 (SpecFifo): each history holds at most 30 points, and it is exactly the last
\* 30 of the points appended to it since its last clear, in append order.
C1_FifoLast30 ==
    \A b \in BufferNames :
        /\ Len(data_buffers[b]) <= 30
        /\ data_buffers[b] = LastN(appended[b], 30)

\* More than 30 points were appended and the oldest one, which differs from the
\* point now at the head, has been evicted.
C1_Witness ==
    \E b \in BufferNames :
        /\ Len(appended[b]) > 30
        /\ appended[b][1] # data_buffers[b][1]

C3_Throttle ==
    [][GetStep =>
        LET b == active_buffer
        IN  IF last_updates[b] # None /\ now - last_updates[b] < TicksPerSecond
            THEN data_buffers' = data_buffers /\ last_updates' = last_updates
            ELSE /\ Len(appended'[b]) = Len(appended[b]) + 1
                 /\ SubSeq(appended'[b], 1, Len(appended[b])) = appended[b]
                 /\ data_buffers'[b] = LastN(appended'[b], 30)
                 /\ last_updates'[b] = now
                 /\ \A o \in BufferNames \ {b} :
                       /\ data_buffers'[o] = data_buffers[o]
                       /\ last_updates'[o] = last_updates[o]]_vars

\* A GET half a second after the first one returned the one point of the first.
C3_Witness ==
    /\ response.op = "get_current_data"
    /\ response.last_update # None
    /\ response.timestamp > response.last_update
    /\ response.timestamp - response.last_update < TicksPerSecond
    /\ response.data_count = 1

\* C4 (SpecStale): the connectivity a GET reports is true iff a device ingestion
\* has happened and fewer than 10 s have passed since the most recent one.
C4_Connectivity ==
    response.op = "get_current_data" =>
        (response.sensor_values.device_connected
            <=> /\ response.sensor_values.last_update # None
                /\ response.timestamp - response.sensor_values.last_update
                      < 10 * TicksPerSecond)

\* C5 (Spec): the points generated for the device source carry the device's own
\* reading; as long as no device ingestion has happened (last_update is set by
\* device ingestions only) that reading is the default one.
C5_Isolation ==
    sensor_values.last_update = None =>
        \A i \in 1..Len(data_buffers["esp32"]) :
            Snapshot(data_buffers["esp32"][i]) = DefaultReading

\* C6 (Spec): a successful set_data_source leaves both histories, both timestamps
\* and the four sensor reading fields as they were.
C6_SwitchFrame ==
    [][SetSourceStep =>
        /\ data_buffers' = data_buffers
        /\ last_updates' = last_updates
        /\ Reading(sensor_values') = Reading(sensor_values)]_vars

\* The source was switched to the device while the manual history held points and
\* a non-default reading.
C6_Witness ==
    /\ response.op = "set_data_source"
    /\ response.code = 200
    /\ active_buffer = "esp32"
    /\ Len(data_buffers["manual"]) > 0
    /\ last_updates["manual"] # None
    /\ Reading(sensor_values) # DefaultReading

IsFlat(h) == Len(h) > 0 /\ \A i \in 1..Len(h) : h[i].Glucose = h[1].Glucose

\* C8, as stated (SpecRange): for a flat history at G the range is (G - 10, G + 10).
C8_FlatCentredOnG ==
    (response.op = "get_current_data" /\ IsFlat(response.glucose_data)) =>
        LET G == response.glucose_data[1].Glucose
        IN  response.y_min = G - 10 * Unit /\ response.y_max = G + 10 * Unit

\* C8, amended (SpecRange): for a flat history at G the range is 20 wide; it is
\* (G - 10, G + 10) for G in [25, 195], and nearer the ends it is centred on the
\* midpoint of the clamped padded interval: (G + 25) / 2 below 25, (G + 195) / 2
\* above 195.  The recentred range is not clamped again.
C8_FlatWindow ==
    (response.op = "get_current_data" /\ IsFlat(response.glucose_data)) =>
        LET G == response.glucose_data[1].Glucose
            twice_center == IF G < 25 * Unit THEN G + 25 * Unit
                            ELSE IF G > 195 * Unit THEN G + 195 * Unit
                            ELSE 2 * G
        IN  /\ response.y_max - response.y_min = 20 * Unit
            /\ response.y_min + response.y_max = twice_center

\* The range of a flat history at 20 was computed: it starts below the clamp.
C8_Witness ==
    /\ response.op = "get_current_data"
    /\ IsFlat(response.glucose_data)
    /\ response.data_count > 1
    /\ response.glucose_data[1].Glucose = 20 * Unit
    /\ response.y_min < 20 * Unit

\* C9 (SpecRange): the range computed for a non-empty history is at least 20 wide.
C9_MinSpan ==
    (response.op = "get_current_data" /\ response.data_count > 0) =>
        response.y_max - response.y_min >= 20 * Unit

\* The range of a history that is not flat was widened to 20.
C9_Witness ==
    /\ response.op = "get_current_data"
    /\ response.data_count > 1
    /\ ~IsFlat(response.glucose_data)
    /\ response.y_max - response.y_min = 20 * Unit

\* C10 (SpecRange): the range computed for an empty history is (50, 150).
C10_EmptyRange ==
    (response.op = "get_current_data" /\ response.data_count = 0) =>
        /\ response.y_min = 50 * Unit
        /\ response.y_max = 150 * Unit
        /\ response.y_range = [min |-> 50 * Unit, max |-> 150 * Unit]

\* The range of an empty history was computed.
C10_Witness ==
    /\ response.op = "get_current_data"
    /\ response.data_count = 0
    /\ response.glucose_data = <<>>

\* C11 (SpecErr): the active source starts as 'manual' and is always one of the
\* two sources; a set_data_source that answers 400 changes nothing in the store;
\* and the active source changes only in a set_data_source that answers 200 and
\* names the new source.
C11_ActiveSource ==
    /\ active_buffer = "manual"
    /\ [][/\ active_buffer' \in {"manual", "esp32"}
          /\ (response'.op = "set_data_source" /\ response'.code = 400 /\ now' = now)
                => store' = store
          /\ active_buffer' # active_buffer
                => /\ response'.op = "set_data_source"
                   /\ response'.code = 200
                   /\ response'.data_source = active_buffer']_vars

\* An unknown source was refused while the device source was active and held a point.
C11_Witness ==
    /\ response.op = "set_data_source"
    /\ response.code = 400
    /\ active_buffer = "esp32"
    /\ Len(data_buffers["esp32"]) > 0

\* a successful step of the ingestion handler named op
IngestStep(op) == response'.op = op /\ response'.code = 200 /\ now' = now

IngestOps == [manual |-> "update_sensors", esp32 |-> "receive_sensor_data"]

\* C12 (Spec): an ingestion for the active source appends exactly one point to
\* that source's history, however recent the last generation, stamps the source
\* with the time of the ingestion and reports a point added; an ingestion for the
\* source that is not active changes no history and no timestamp and reports no
\* point added.
C12_IngestAppends ==
    [][\A b \in BufferNames :
         IngestStep(IngestOps[b]) =>
           IF active_buffer = b
           THEN /\ appended'[b] = Append(appended[b], data_buffers'[b][Len(data_buffers'[b])])
                /\ data_buffers'[b] = DequeAppend(data_buffers[b], appended'[b][Len(appended'[b])])
                /\ last_updates'[b] = now
                /\ \A o \in BufferNames \ {b} :
                      /\ data_buffers'[o] = data_buffers[o]
                      /\ last_updates'[o] = last_updates[o]
                /\ response'.data_added = TRUE
                /\ ~should_generate(b, now)'
           ELSE /\ data_buffers' = data_buffers
                /\ last_updates' = last_updates
                /\ response'.data_added = FALSE]_vars

\* A manual ingestion appended a second point within the second of the first.
C12_Witness ==
    /\ response.op = "update_sensors"
    /\ response.code = 200
    /\ response.data_added
    /\ Len(data_buffers["manual"]) = 2
    /\ data_buffers["manual"][1].Time = data_buffers["manual"][2].Time
    /\ last_updates["manual"] = now

\* C13 (Spec): a successful ingestion stores exactly the fields its body supplies
\* and leaves every field the body omits at the value it had.
C13_PartialUpdate ==
    [][\A data \in Requests, noise \in NoiseSet :
         (update_sensors(data, noise) \/ receive_sensor_data(data, noise)) =>
            \A f \in Fields :
               sensor_values'[f] = IF data[f].k = "absent"
                                   THEN sensor_values[f]
                                   ELSE data[f].v]_vars

\* A body with the temperature alone was ingested after a full one: the new
\* temperature stands next to the three values of the full body.
C13_Witness ==
    /\ response.op \in {"update_sensors", "receive_sensor_data"}
    /\ response.code = 200
    /\ sensor_values.red_signal = ReqFull.red_signal.v
    /\ sensor_values.ir_signal = ReqFull.ir_signal.v
    /\ sensor_values.temperature = ReqWarm.temperature.v
    /\ sensor_values.motion = ReqFull.motion.v

\* C14 (SpecFifo): in every step each history is left as it is, or emptied by a
\* clear of that source, or extended by one point at the end, losing its oldest
\* point if it was full; the points that stay keep their content and order.
C14_PointsImmutable ==
    [][\A b \in BufferNames :
         LET old == data_buffers[b]
             new == data_buffers'[b]
         IN  \/ new = old
             \/ /\ new = <<>>
                /\ ClearStep
                /\ response'.buffer_name = b
             \/ /\ Len(old) < MaxLen
                /\ Len(new) = Len(old) + 1
                /\ SubSeq(new, 1, Len(old)) = old
             \/ /\ Len(old) = MaxLen
                /\ Len(new) = MaxLen
                /\ SubSeq(new, 1, MaxLen - 1) = Tail(old)]_vars

\* A full history after an eviction: the point now at its head is the second one
\* appended, as it was appended, and differs from the newest one.
C14_Witness ==
    \E b \in BufferNames :
        /\ Len(data_buffers[b]) = MaxLen
        /\ Len(appended[b]) = MaxLen + 1
        /\ data_buffers[b][1] = appended[b][2]
        /\ data_buffers[b][1].Glucose # data_buffers[b][MaxLen].Glucose

LastGlucose(h) == IF Len(h) > 0 THEN <<h[Len(h)].Glucose>> ELSE <<>>

\* the Glucose a point gets when it is generated now against the previous value prev
GlucoseFrom(p, prev) ==
    {Round1(calculate_glucose(p.Red, p.IR, p.Temperature, p.Motion, prev, now, noise)) :
        noise \in NoiseSet}

\* C17 (Spec): a point appended to a source is smoothed against the Glucose of the
\* newest point that source's own history held just before, and is not smoothed
\* at all when that history was empty, as it is at the start and after a clear.
C17_OwnPrevious ==
    [][\A b \in BufferNames :
         Len(appended'[b]) = Len(appended[b]) + 1 =>
            appended'[b][Len(appended'[b])].Glucose \in
               GlucoseFrom(appended'[b][Len(appended'[b])], LastGlucose(data_buffers[b]))]_vars

\* The device source got its first point after the manual source got its newest
\* one; the point is the unsmoothed value, which differs from the value smoothing
\* against the manual point would have given.
C17_Witness ==
    /\ Len(data_buffers["manual"]) > 0
    /\ Len(appended["esp32"]) = 1
    /\ last_updates["esp32"] = now
    /\ last_updates["manual"] < now
    /\ LET p == data_buffers["esp32"][1]
       IN  /\ p.Glucose \in GlucoseFrom(p, <<>>)
           /\ p.Glucose \notin GlucoseFrom(p, LastGlucose(data_buffers["manual"]))

\* C18 (Spec): a source has no generation timestamp exactly when its history is
\* empty, and every answer of get_current_data carries at least one point.
C18_StampIffNonEmpty ==
    /\ \A b \in BufferNames : (last_updates[b] = None) <=> (data_buffers[b] = <<>>)
    /\ response.op = "get_current_data" =>
          /\ response.data_count > 0
          /\ response.glucose_data # <<>>

\* A clear has just emptied one source and removed its timestamp while the other
\* source keeps its point and its timestamp.
C18_Witness ==
    /\ response.op = "clear_buffer"
    /\ response.code = 200
    /\ data_buffers[response.buffer_name] = <<>>
    /\ last_updates[response.buffer_name] = None
    /\ \E o \in BufferNames : data_buffers[o] # <<>> /\ last_updates[o] # None

\* C19 (Spec): the history and the timestamp of the source that is not active
\* when a step starts change only in a clear_buffer that names that source, which
\* empties it; get_current_data and the two ingestions leave them alone.
C19_InactiveUntouched ==
    [][\A b \in BufferNames \ {active_buffer} :
         /\ (data_buffers'[b] # data_buffers[b] \/ last_updates'[b] # last_updates[b])
               => /\ ClearStep
                  /\ response'.buffer_name = b
                  /\ data_buffers'[b] = <<>>
         /\ (GetStep \/ IngestStep("update_sensors") \/ IngestStep("receive_sensor_data"))
               => /\ data_buffers'[b] = data_buffers[b]
                  /\ last_updates'[b] = last_updates[b]]_vars

\* The device sent a body while the manual source was active: the device history
\* kept its point and its older timestamp, and no point was reported.
C19_Witness ==
    /\ response.op = "receive_sensor_data"
    /\ response.code = 200
    /\ ~response.data_added
    /\ active_buffer = "manual"
    /\ Len(data_buffers["esp32"]) > 0
    /\ last_updates["esp32"] < now

\* C20 (SpecRange): the range computed for a non-empty history holds every Glucose
\* of the history, before and after rounding, recentred or not.
C20_RangeContainsData ==
    (response.op = "get_current_data" /\ response.data_count > 0) =>
        LET glucose_values == {response.glucose_data[i].Glucose :
                                  i \in 1..Len(response.glucose_data)}
        IN  /\ response.y_min <= MinOf(glucose_values)
            /\ MaxOf(glucose_values) <= response.y_max
            /\ response.y_range.min <= MinOf(glucose_values)
            /\ MaxOf(glucose_values) <= response.y_range.max

\* The range of a history spanning 20 to 100 was computed: it is clamped at 20,
\* where the lowest point sits, and was not recentred.
C20_Witness ==
    /\ response.op = "get_current_data"
    /\ response.data_count > 1
    /\ \E i \in 1..Len(response.glucose_data) : response.glucose_data[i].Glucose = 20 * Unit
    /\ \E i \in 1..Len(response.glucose_data) : response.glucose_data[i].Glucose = 100 * Unit
    /\ response.y_min = 20 * Unit
    /\ response.y_max - response.y_min > 20 * Unit

\* the thread has appended a point in the request it is handling
HasAppended(w) == threads[w].pc \in {"144", "147"} /\ threads[w].should_generate

\* C16 (SpecConc): two requests of get_current_data in flight at once for the
\* same buffer, started less than 1 s apart, do not both append a point.
C16_OnePointPerWindow ==
    \A w1 \in Workers : \A w2 \in Workers \ {w1} :
        ( /\ threads[w1].pc # "idle"
          /\ threads[w2].pc # "idle"
          /\ threads[w1].buffer_name = threads[w2].buffer_name
          /\ threads[w1].current_time - threads[w2].current_time < GenerateEvery * TicksPerSecond
          /\ threads[w2].current_time - threads[w1].current_time < GenerateEvery * TicksPerSecond )
        => ~(HasAppended(w1) /\ HasAppended(w2))

====
